---- MODULE Spec2Model ----
(***************************************************************************)
(* Cross-section explorer: App (frozen flag, trigger counters), SlicerScene *)
(* (cut-plane accumulators, pointer/keyboard handlers, per-frame update,   *)
(* align/reset camera effects).                                            *)
(*                                                                         *)
(* Numbers.  The program computes in floating point; the model computes in *)
(* fixed point:                                                            *)
(*   angles     in centiradians (0.01 rad),                                *)
(*   lengths    in thousandths of a world unit,                            *)
(*   unit vectors and sines/cosines scaled by Unit (1000),                 *)
(*   time       in milliseconds,                                           *)
(*   pointer coordinates in pixels.                                        *)
(***************************************************************************)
EXTENDS Integers, Sequences, FiniteSets, TLC

VARIABLES
    \* ---- App state (useState) ----
    geometryType,       \* App.geometryType
    isFrozen,           \* App.isFrozen
    alignTrigger,       \* App.alignTrigger
    resetTrigger,       \* App.resetTrigger
    \* ---- SlicerScene props / refs / objects ----
    interactionMode,    \* SlicerScene prop interactionMode
    geometry,           \* the mesh geometry the scene renders (useMemo)
    plane,              \* THREE.Plane shared with SlicedObject: [normal, constant]
    planePos,           \* planePosRef.current
    planeEuler,         \* planeEulerRef.current
    animationFrameRef,  \* animationFrameRef.current
    isDraggingRotate,   \* isDraggingRotate.current
    lastMouse,          \* lastMouse.current (NoMouse = null)
    cameraPos,          \* camera.position
    cameraLook,         \* the point the camera was last aimed at (lookAt)
    orbitTarget,        \* controls.target
    \* ---- host: browser and frame scheduler ----
    rafQueue,           \* callbacks scheduled with requestAnimationFrame
    nextRafId,          \* the id the next requestAnimationFrame returns
    now,                \* Date.now(), ms since mount
    pointer,            \* pointer position (clientX, clientY)
    gesture,            \* primary-button press in progress (NoGesture = none)
    domQueue,           \* mouse events the browser still has to dispatch
    prevClick,          \* the previous gesture ended in a click a moment ago
    \* ---- observation ----
    lastEvent,          \* the handler that ran last, with what it observed
    rendered,           \* a frame has been rendered since mount
    capPosition,        \* capMeshRef.current.position (SlicedObject's cap quad)
    drawn,              \* the passes of SlicedObject in the order the last frame drew them
    used                \* how much of each exploration budget is used

vars == << geometryType, isFrozen, alignTrigger, resetTrigger, interactionMode,
           geometry, plane, planePos, planeEuler, animationFrameRef, isDraggingRotate,
           lastMouse, cameraPos, cameraLook, orbitTarget, rafQueue, nextRafId,
           now, pointer, gesture, domQueue, prevClick, lastEvent, rendered,
           capPosition, drawn, used >>

appVars   == << geometryType, isFrozen, alignTrigger, resetTrigger >>
planeVars == << plane, planePos, planeEuler >>
dragVars  == << isDraggingRotate, lastMouse >>
camVars   == << cameraPos, cameraLook, orbitTarget >>
rafVars   == << animationFrameRef, rafQueue, nextRafId >>
hostVars  == << pointer, gesture, domQueue, prevClick >>
frameVars == << rendered, capPosition, drawn >>

-----------------------------------------------------------------------------
\* Bounds of the exploration

MaxRot     == 2   \* orientation mutations (key steps, drag moves)
MaxFollow  == 2   \* frames in which the position follows the pointer
MaxAlign   == 2   \* align-view events
MaxReset   == 2   \* reset and solid-type events (value of resetTrigger)
MaxTicks   == 2   \* clock advances
MaxGesture == 2   \* pointer presses
MaxRaf     == 4   \* requestAnimationFrame calls (largest id handed out)
TickMs     == 500 \* milliseconds per clock advance
MaxInputs  == 4   \* events of all kinds together
AngleMax   == 320 \* largest angle tabulated, centiradians

-----------------------------------------------------------------------------
\* Fixed-point arithmetic

Unit == 10 * 100            \* scale of unit vectors, sines and cosines

\* Division rounding toward zero, as a float truncated to the grid would.
Quot(a, b) == IF a < 0 THEN -((-a) \div b) ELSE a \div b

RECURSIVE SqrtSearch(_, _, _)
SqrtSearch(n, lo, hi) ==
    IF lo >= hi THEN lo
    ELSE LET mid == (lo + hi + 1) \div 2
         IN  IF mid * mid <= n THEN SqrtSearch(n, mid, hi)
                               ELSE SqrtSearch(n, lo, mid - 1)

\* Math.sqrt, rounded down to an integer (n < 2^30).
Sqrt(n) == SqrtSearch(n, 0, 32767)

\* One more term pair of the Taylor series: term * a^2 / (k (k+1)), a in centirad.
TaylorNext(term, a, k) == Quot(Quot(term * a, 100) * a, 100 * k * (k + 1))

\* Math.sin of a centiradian angle, scaled by Unit * 10 internally.
SinTen(a) ==
    LET t1 == a * 100
        t3 == TaylorNext(t1, a, 2)
        t5 == TaylorNext(t3, a, 4)
        t7 == TaylorNext(t5, a, 6)
        t9 == TaylorNext(t7, a, 8)
        t11 == TaylorNext(t9, a, 10)
    IN  t1 - t3 + t5 - t7 + t9 - t11

CosTen(a) ==
    LET t0 == Unit * 10
        t2 == TaylorNext(t0, a, 1)
        t4 == TaylorNext(t2, a, 3)
        t6 == TaylorNext(t4, a, 5)
        t8 == TaylorNext(t6, a, 7)
        t10 == TaylorNext(t8, a, 9)
    IN  t0 - t2 + t4 - t6 + t8 - t10

Round10(n) == Quot(n + (IF n < 0 THEN -5 ELSE 5), 10)

\* Math.sin and Math.cos scaled by Unit, tabulated once over one period.
SinTable == [a \in -AngleMax..AngleMax |-> Round10(SinTen(a))]
CosTable == [a \in -AngleMax..AngleMax |-> Round10(CosTen(a))]

\* The period of Math.sin and Math.cos, in thousandths of a centiradian
TwoPi == 628319

\* The argument reduction of Math.sin and Math.cos: the angle less the nearest
\* whole number of periods, which lies within half a period of zero.
ReduceAngle(a) ==
    LET k == Quot(2 * a * 1000 + (IF a < 0 THEN -TwoPi ELSE TwoPi), 2 * TwoPi)
    IN  a - Quot(k * TwoPi + (IF k < 0 THEN -500 ELSE 500), 1000)

Sin(a) == SinTable[ReduceAngle(a)]
Cos(a) == CosTable[ReduceAngle(a)]

\* THREE.Vector3 as a triple
Vec(x, y, z) == << x, y, z >>
Zero3 == Vec(0, 0, 0)
VAdd(u, v) == Vec(u[1] + v[1], u[2] + v[2], u[3] + v[3])
VSub(u, v) == Vec(u[1] - v[1], u[2] - v[2], u[3] - v[3])
VDot(u, v) == u[1] * v[1] + u[2] * v[2] + u[3] * v[3]
VLength(v) == Sqrt(VDot(v, v))

\* Vector3.multiplyScalar with the scalar num/den
VScale(v, num, den) ==
    Vec(Quot(v[1] * num, den), Quot(v[2] * num, den), Quot(v[3] * num, den))

NormalizeSkipped(v) == v

\* Vector3.normalize: divideScalar(length() || 1), the result scaled by Unit
Normalize(v) ==
    LET len == VLength(v)
    IN  IF len = 0 THEN v ELSE VScale(v, Unit, len)

ClampLengthSkipped(v, max) == v

\* Vector3.clampLength(0, max): divideScalar(length || 1).multiplyScalar(min(max, length))
ClampLength(v, max) ==
    LET len == VLength(v)
    IN  IF len <= max THEN v ELSE VScale(v, max, len)

\* Vector3.lerp(target, alpha) and lerpVectors(a, b, alpha), alpha = num/den
Lerp(a, b, num, den) == VAdd(a, VScale(VSub(b, a), num, den))

-----------------------------------------------------------------------------
\* Program constants

speed      == 1      \* 0.01 rad per pixel, in centiradians
step       == 10     \* 0.1 rad per key press, in centiradians
distance   == 5      \* align standoff distance, world units
duration   == 1000   \* align animation length, ms
lerpAlpha  == 15     \* position-follow factor 0.15, in hundredths
clampMax   == 2500   \* pointer-follow target clamp 2.5, in thousandths

defaultPos    == Vec(4 * Unit, 4 * Unit, 6 * Unit)   \* new THREE.Vector3(4, 4, 6)
defaultTarget == Zero3                               \* new THREE.Vector3(0, 0, 0)

GeometryTypes == { "Cube", "Sphere" }                \* two of the enum's variants

\* The solid-type selector: every variant of the GeometryType enum
AllGeometryTypes ==
    { "Cube", "Sphere", "Cylinder", "Cone", "Torus", "Tetrahedron", "Octahedron",
      "Dodecahedron", "Icosahedron", "Capsule", "HexPrism" }

Geometry(class, args) == [class |-> class, args |-> args]

\* createGeometry: the THREE geometry constructed for a type
createGeometry(type) ==
    CASE type = "Cube"         -> Geometry("BoxGeometry", "2, 2, 2")
      [] type = "Sphere"       -> Geometry("SphereGeometry", "1.4, 64, 64")
      [] type = "Cylinder"     -> Geometry("CylinderGeometry", "1, 1, 3, 64")
      [] type = "Cone"         -> Geometry("ConeGeometry", "1.2, 3, 64")
      [] type = "Torus"        -> Geometry("TorusGeometry", "1.2, 0.4, 32, 100")
      [] type = "Tetrahedron"  -> Geometry("TetrahedronGeometry", "1.6")
      [] type = "Octahedron"   -> Geometry("OctahedronGeometry", "1.6")
      [] type = "Dodecahedron" -> Geometry("DodecahedronGeometry", "1.4")
      [] type = "Icosahedron"  -> Geometry("IcosahedronGeometry", "1.4")
      [] type = "Capsule"      -> Geometry("CapsuleGeometry", "0.8, 1.5, 4, 16")
      [] type = "HexPrism"     -> Geometry("CylinderGeometry", "1.2, 1.2, 2.5, 6")
      [] OTHER                 -> Geometry("BoxGeometry", "2, 2, 2")

GeometryMemoStale(type0, type1, memo) == memo

\* useMemo(() => createGeometry(geometryType), [geometryType]) across a render
\* in which geometryType went from type0 to type1
GeometryMemo(type0, type1, memo) ==
    IF type0 # type1 THEN createGeometry(type1) ELSE memo

\* Values of SlicerScene's interactionMode prop.  The scene compares it with
\* 'knife' and 'camera'; App mounts the scene without the prop ("undefined").
Modes         == { "camera", "knife", "undefined" }
Keys          == { "q", "e", "a", "d", "w", "s", "Q", "E", "A", "D", "W", "S", "x" }
SceneKeys     == { "q" }                             \* keys pressed in Spec
Buttons       == { 0, 2 }                            \* primary, secondary
Points        == { << 0, 0 >>, << 50, 0 >>, << 50, 20 >> }  \* client positions
NoHit         == << >>                               \* intersectPlane returned null
RayHits       == { Vec(3000, 0, 0), Vec(0, -1000, 2000) }

\* The short-gesture detector's thresholds: pixels, milliseconds
ClickPixelThreshold == 5
ClickTimeThreshold  == 250

NoMouse   == [x |-> -1, y |-> -1, set |-> FALSE]
NoGesture == [button |-> -1, x |-> 0, y |-> 0, t |-> 0]

-----------------------------------------------------------------------------
\* Cut-plane derivation (SlicerScene.useFrame)

\* new Vector3(0,1,0).applyQuaternion(new Quaternion().setFromEuler(rot)): the
\* second column of the rotation matrix of an XYZ-ordered Euler triple.
RotateUp(rot) ==
    LET a == Cos(rot[1])  b == Sin(rot[1])
        c == Cos(rot[2])  d == Sin(rot[2])
        e == Cos(rot[3])  f == Sin(rot[3])
        bd == Quot(b * d, Unit)
        ad == Quot(a * d, Unit)
    IN  Vec( -Quot(c * f, Unit),
             Quot(a * e, Unit) - Quot(bd * f, Unit),
             Quot(b * e, Unit) + Quot(ad * f, Unit) )

DeriveNormal(rot) == Normalize(RotateUp(rot))

DeriveConstantUnsigned(normal, pos) == Quot(VDot(normal, pos), Unit)

DeriveConstant(normal, pos) == -Quot(VDot(normal, pos), Unit)

DerivePlane(pos, rot) ==
    LET normal == DeriveNormal(rot)
    IN  [normal |-> normal, constant |-> DeriveConstant(normal, pos)]

\* The position-follow step of a frame; hit is the ray/pick-plane intersection.
FollowTarget(hit) == ClampLength(IF hit = NoHit THEN Zero3 ELSE hit, clampMax)

FollowPointer(pos, hit) == Lerp(pos, FollowTarget(hit), lerpAlpha, 100)

\* The useFrame callbacks in the order a frame calls them: the order in which
\* they subscribed, which is the order of the components' layout effects, a
\* child's (SlicedObject, rendered inside SlicerScene) before its parent's.
FrameSubscribers == << "SlicedObject", "SlicerScene" >>

Position(seq, x) == CHOOSE i \in 1..Len(seq) : seq[i] = x

\* The shared plane as SlicedObject.useFrame reads it in a frame in which
\* SlicerScene.useFrame takes it from before to after.
PlaneSeenByCap(order, before, after) ==
    IF Position(order, "SlicedObject") < Position(order, "SlicerScene") THEN before ELSE after

\* SlicedObject.useFrame: normal.clone().multiplyScalar(-constant)
CapPosition(p) == VScale(p.normal, -p.constant, Unit)

\* The renderOrder prop SlicerScene passes to SlicedObject
renderOrder == 1

BackFacesRenderOrder(r) == r
FrontFacesRenderOrder(r) == r + 1
CapRenderOrderOfBackFaces(r) == r
CapRenderOrder(r) == r + 2
SolidRenderOrder(r) == r + 3
WireframeRenderOrder(r) == r + 3

\* The meshes of SlicedObject in the order the JSX creates them (id: the
\* object's, material: its material's creation index); only the wireframe's material
\* is transparent, only the cap is moved off the centre.
RenderPasses(r) ==
    << [name |-> "backFaces",  renderOrder |-> BackFacesRenderOrder(r),  transparent |-> FALSE, material |-> 1, id |-> 1],
       [name |-> "frontFaces", renderOrder |-> FrontFacesRenderOrder(r), transparent |-> FALSE, material |-> 2, id |-> 2],
       [name |-> "cap",        renderOrder |-> CapRenderOrder(r),        transparent |-> FALSE, material |-> 3, id |-> 3],
       [name |-> "solid",      renderOrder |-> SolidRenderOrder(r),      transparent |-> FALSE, material |-> 4, id |-> 4],
       [name |-> "wireframe",  renderOrder |-> WireframeRenderOrder(r),  transparent |-> TRUE,  material |-> 5, id |-> 5] >>

PassNames == { "backFaces", "frontFaces", "cap", "solid", "wireframe" }

\* The view depths a frame can give the meshes: the geometry meshes share the
\* centre, the cap sits on the plane, nearer to or farther from the camera.
Depths == { [n \in PassNames |-> IF n = "cap" THEN capZ ELSE 1] : capZ \in { 0, 2 } }

\* The renderer's order of two opaque objects: renderOrder, then material,
\* then front to back, then creation
painterSortStable(a, b, z) ==
    IF a.renderOrder # b.renderOrder THEN a.renderOrder < b.renderOrder
    ELSE IF a.material # b.material THEN a.material < b.material
    ELSE IF z[a.name] # z[b.name] THEN z[a.name] < z[b.name]
    ELSE a.id < b.id

\* ... and of two transparent ones: renderOrder, then back to front, then
\* creation
reversePainterSortStable(a, b, z) ==
    IF a.renderOrder # b.renderOrder THEN a.renderOrder < b.renderOrder
    ELSE IF z[a.name] # z[b.name] THEN z[a.name] > z[b.name]
    ELSE a.id < b.id

\* The renderer's order within one list
Before(a, b, z, transparent) ==
    IF transparent THEN reversePainterSortStable(a, b, z) ELSE painterSortStable(a, b, z)

RECURSIVE SortPasses(_, _, _)
SortPasses(transparent, passes, z) ==
    IF passes = << >> THEN << >>
    ELSE LET first == CHOOSE i \in 1..Len(passes) :
                        \A j \in 1..Len(passes) :
                           j # i => Before(passes[i], passes[j], z, transparent)
             rest  == [k \in 1..(Len(passes) - 1) |->
                          IF k < first THEN passes[k] ELSE passes[k + 1]]
         IN  << passes[first] >> \o SortPasses(transparent, rest, z)

IsTransparent(pass) == pass.transparent
IsOpaque(pass) == ~pass.transparent

\* The names of the passes in the order a frame draws them: the opaque list,
\* sorted, then the transparent list, sorted.
RenderList(passes, z) ==
    LET sorted == SortPasses(FALSE, SelectSeq(passes, IsOpaque), z)
                    \o SortPasses(TRUE, SelectSeq(passes, IsTransparent), z)
    IN  [i \in 1..Len(sorted) |-> sorted[i].name]

-----------------------------------------------------------------------------
\* Host: requestAnimationFrame / cancelAnimationFrame

\* requestAnimationFrame(animateCam): cb is the closure (startPos, targetPos, startTime)
RequestAnimationFrame(q, id, cb) ==
    q \cup { [id |-> id, startPos |-> cb.startPos, targetPos |-> cb.targetPos,
              startTime |-> cb.startTime] }

CancelAnimationFrame(q, id) == { r \in q : r.id # id }

-----------------------------------------------------------------------------
\* Camera choreography (SlicerScene effects)

ResetCancelSkipped(q, ref) == q

\* "Cancel any ongoing camera animation" of the reset effect
ResetCancel(q, ref) == IF ref # 0 THEN CancelAnimationFrame(q, ref) ELSE q

\* "Cancel existing animation" at the head of the align effect
AlignCancel(q, ref) == IF ref # 0 THEN CancelAnimationFrame(q, ref) ELSE q

\* The align effect's cleanup; it exists when the last run passed the === 0 return.
AlignCleanup(q, ref, trigger) ==
    IF trigger # 0 /\ ref # 0 THEN CancelAnimationFrame(q, ref) ELSE q

\* targetPos = center + normal * -distance
AlignTarget(normal) == VAdd(Zero3, VScale(normal, -distance, 1))

RescheduledRetargeting(cb) == [cb EXCEPT !.targetPos = AlignTarget(plane.normal)]

\* requestAnimationFrame(animateCam): the closure that is scheduled again is the
\* running one, with the startPos, targetPos and startTime it captured.
Rescheduled(cb) == cb

\* t = min((now - startTime) / duration, 1), in thousandths
Progress(cb, time) ==
    LET t == Quot((time - cb.startTime) * Unit, duration)
    IN  IF t < Unit THEN t ELSE Unit

\* ease = 1 - (1 - t)^3, in thousandths
EaseOutCubic(t) ==
    LET r == Unit - t
    IN  Unit - Quot(r * r * r, Unit * Unit)

StillRunningAtEnd(t) == t <= Unit

\* if (t < 1): the animation has not reached its end
StillRunning(t) == t < Unit

\* What a run of animateCam does once it has computed progress t and the
\* interpolated position pos: move and aim the camera, then either schedule
\* itself again or recentre the controls and clear the handle.  c is the scene's
\* camera part [cameraPos, cameraLook, orbitTarget, animationFrameRef, rafQueue,
\* nextRafId].
AnimateCamStep(cb, t, pos, c) ==
    IF StillRunning(t)
    THEN [c EXCEPT !.cameraPos = pos,
                   !.cameraLook = Zero3,
                   !.animationFrameRef = c.nextRafId,
                   !.rafQueue = RequestAnimationFrame(c.rafQueue, c.nextRafId,
                                                      Rescheduled(cb)),
                   !.nextRafId = c.nextRafId + 1]
    ELSE [c EXCEPT !.cameraPos = pos,
                   !.cameraLook = Zero3,
                   !.orbitTarget = Zero3,
                   !.animationFrameRef = 0]

\* One run of animateCam for closure cb at time `time`
animateCam(cb, time, c) ==
    LET t == Progress(cb, time)
    IN  AnimateCamStep(cb, t, Lerp(cb.startPos, cb.targetPos, EaseOutCubic(t), Unit), c)

CamPart == [cameraPos |-> cameraPos, cameraLook |-> cameraLook,
            orbitTarget |-> orbitTarget, animationFrameRef |-> animationFrameRef,
            rafQueue |-> rafQueue, nextRafId |-> nextRafId]

SetCamPart(c) ==
    /\ cameraPos' = c.cameraPos
    /\ cameraLook' = c.cameraLook
    /\ orbitTarget' = c.orbitTarget
    /\ animationFrameRef' = c.animationFrameRef
    /\ rafQueue' = c.rafQueue
    /\ nextRafId' = c.nextRafId

\* Body of the align effect for a non-zero trigger, run on camera part c.
AlignEffect(c, normal, time) ==
    LET cancelled == [c EXCEPT !.rafQueue = AlignCancel(c.rafQueue, c.animationFrameRef)]
        cb == [startPos |-> c.cameraPos, targetPos |-> AlignTarget(normal),
               startTime |-> time]
    IN  animateCam(cb, time, cancelled)

ResetCameraCancelOnly(c) ==
    [c EXCEPT !.rafQueue = ResetCancel(c.rafQueue, c.animationFrameRef),
              !.animationFrameRef = 0]

\* Camera part of the reset effect: cancel, then snap camera and orbit target.
ResetCamera(c) ==
    [c EXCEPT !.rafQueue = ResetCancel(c.rafQueue, c.animationFrameRef),
              !.animationFrameRef = 0,
              !.cameraPos = defaultPos,
              !.orbitTarget = defaultTarget,
              !.cameraLook = defaultTarget]

\* useEffect(..., [trigger, camera, plane, controls]): after a commit the effect
\* runs again when one of its dependencies changed; camera, plane and controls
\* keep their identity after mount, so the trigger decides.
DepsChanged(old, new) == old # new

ReturnsEarlyNever(trigger) == FALSE

\* if (triggerReset === 0) return;  if (triggerAlignView === 0) return;
ReturnsEarly(trigger) == trigger = 0

\* The scene part the two effects work on: the camera part and the accumulators.
ScenePart == [cameraPos |-> cameraPos, cameraLook |-> cameraLook,
              orbitTarget |-> orbitTarget, animationFrameRef |-> animationFrameRef,
              rafQueue |-> rafQueue, nextRafId |-> nextRafId,
              planePos |-> planePos, planeEuler |-> planeEuler]

SetScenePart(s) ==
    /\ SetCamPart(s)
    /\ planePos' = s.planePos
    /\ planeEuler' = s.planeEuler

\* Body of the reset effect past its early return
ResetEffect(s) ==
    [ResetCamera(s) EXCEPT !.planePos = Zero3, !.planeEuler = Zero3]

\* The effects of one commit in which triggerReset went from r0 to r1 and
\* triggerAlignView from a0 to a1: first the cleanups of the effects that run
\* again (only the align effect returns one, and only from a run that passed
\* its early return), then the bodies in the order of declaration: reset, align.
CommitWith(Reset(_), Align(_, _, _), s, r0, r1, a0, a1, normal, time) ==
    LET cleaned == IF DepsChanged(a0, a1) /\ ~ReturnsEarly(a0)
                   THEN [s EXCEPT !.rafQueue =
                            AlignCleanup(s.rafQueue, s.animationFrameRef, a0)]
                   ELSE s
        afterReset == IF DepsChanged(r0, r1) /\ ~ReturnsEarly(r1)
                      THEN Reset(cleaned)
                      ELSE cleaned
    IN  IF DepsChanged(a0, a1) /\ ~ReturnsEarly(a1)
        THEN Align(afterReset, normal, time)
        ELSE afterReset

Commit(s, r0, r1, a0, a1, normal, time) ==
    CommitWith(ResetEffect, AlignEffect, s, r0, r1, a0, a1, normal, time)

-----------------------------------------------------------------------------
\* Initial state: App and SlicerScene just mounted, controls registered.

Ev(name) == [name |-> name, drag |-> FALSE]

\* The scene as constructed: refs at their initial values, the camera where
\* <Canvas camera={{ position: [4, 4, 6] }}> puts it, controls aimed at the origin.
Constructed == [cameraPos |-> defaultPos, cameraLook |-> Zero3,
                orbitTarget |-> Zero3, animationFrameRef |-> 0,
                rafQueue |-> {}, nextRafId |-> 1,
                planePos |-> Zero3, planeEuler |-> Zero3]

\* The mount commit: every effect runs for the first time (no earlier
\* dependencies, written -1), with both triggers 0.
Mounted == Commit(Constructed, -1, 0, -1, 0, Vec(0, Unit, 0), 0)

\* Everything but the orientation accumulator and the camera position
InitScene ==
    /\ geometryType = "Cube"
    /\ geometry = createGeometry("Cube")
    /\ isFrozen = FALSE
    /\ alignTrigger = 0
    /\ resetTrigger = 0
    /\ interactionMode \in Modes
    /\ plane = [normal |-> Vec(0, Unit, 0), constant |-> 0]
    /\ planePos = Mounted.planePos
    /\ animationFrameRef = Mounted.animationFrameRef
    /\ isDraggingRotate = FALSE
    /\ lastMouse = NoMouse
    /\ cameraLook = Mounted.cameraLook
    /\ orbitTarget = Mounted.orbitTarget
    /\ rafQueue = Mounted.rafQueue
    /\ nextRafId = Mounted.nextRafId
    /\ now = 0
    /\ pointer = << 0, 0 >>
    /\ gesture = NoGesture
    /\ domQueue = << >>
    /\ prevClick = FALSE
    /\ lastEvent = Ev("mount")
    /\ rendered = FALSE
    /\ capPosition = Zero3
    /\ drawn = << >>
    /\ used = [rot |-> 0, follow |-> 0, align |-> 0, gesture |-> 0, ticks |-> 0,
               inputs |-> 0]

Init ==
    /\ InitScene
    /\ planeEuler = Mounted.planeEuler
    /\ cameraPos = Mounted.cameraPos

\* Exploration budgets: each kind of input has its own, and all share one.
Budget == [rot |-> MaxRot, follow |-> MaxFollow, align |-> MaxAlign,
           gesture |-> MaxGesture, ticks |-> MaxTicks]

CanSpend(kind) == used[kind] < Budget[kind] /\ used.inputs < MaxInputs

Spend(kind) == [used EXCEPT ![kind] = @ + 1, !.inputs = @ + 1]

CanStep == used.inputs < MaxInputs

Stepped == [used EXCEPT !.inputs = @ + 1]

\* The browser dispatches the mouse events of a gesture back to back: nothing
\* else runs while some are queued.
Quiet == domQueue = << >>

-----------------------------------------------------------------------------
\* App handlers

CanvasClickIgnored(frozen) == frozen

\* handleCanvasClick: the new value of isFrozen
CanvasClickFrozen(frozen) == IF ~frozen THEN TRUE ELSE frozen

\* onClick of the canvas wrapper, for the click the browser queued
handleCanvasClick ==
    /\ domQueue # << >>
    /\ Head(domQueue).type = "click"
    /\ isFrozen' = CanvasClickFrozen(isFrozen)
    /\ domQueue' = Tail(domQueue)
    /\ prevClick' = (Len(domQueue) = 1)
    /\ lastEvent' = [name |-> "click", drag |-> Head(domQueue).drag]
    /\ UNCHANGED frameVars
    /\ UNCHANGED << geometryType, alignTrigger, resetTrigger, interactionMode, geometry,
                    planeVars, dragVars, camVars, rafVars, now, pointer, gesture, used >>

DoubleClickIgnored(frozen) == frozen

\* onDoubleClick={() => setIsFrozen(false)}: the new value of isFrozen
DoubleClickFrozen(frozen) == FALSE

\* onDoubleClick of the canvas wrapper
onDoubleClick ==
    /\ domQueue # << >>
    /\ Head(domQueue).type = "dblclick"
    /\ isFrozen' = DoubleClickFrozen(isFrozen)
    /\ domQueue' = Tail(domQueue)
    /\ prevClick' = FALSE
    /\ lastEvent' = Ev("dblclick")
    /\ UNCHANGED frameVars
    /\ UNCHANGED << geometryType, alignTrigger, resetTrigger, interactionMode, geometry,
                    planeVars, dragVars, camVars, rafVars, now, pointer, gesture, used >>

\* onToggleFreeze: the new value of isFrozen
ToggleFrozen(frozen) == ~frozen

onToggleFreezeDroppingAnimation ==
    /\ Quiet
    /\ CanStep
    /\ used' = Stepped
    /\ isFrozen' = ToggleFrozen(isFrozen)
    /\ rafQueue' = {}
    /\ animationFrameRef' = 0
    /\ lastEvent' = Ev("toggle")
    /\ UNCHANGED << geometryType, alignTrigger, resetTrigger, interactionMode, geometry,
                    planeVars, dragVars, camVars, nextRafId, now, hostVars, frameVars >>

onToggleFreeze ==
    /\ Quiet
    /\ CanStep
    /\ used' = Stepped
    /\ isFrozen' = ToggleFrozen(isFrozen)
    /\ lastEvent' = Ev("toggle")
    /\ UNCHANGED frameVars
    /\ UNCHANGED << geometryType, alignTrigger, resetTrigger, interactionMode, geometry,
                    planeVars, dragVars, camVars, rafVars, now, hostVars >>

ResetAlignTriggerDecrements(a) == IF a > 0 THEN a - 1 ELSE 0

\* handleReset: setAlignTrigger(0)
ResetAlignTrigger(a) == 0

\* handleReset, then the commit.
handleReset ==
    /\ Quiet
    /\ CanStep
    /\ used' = Stepped
    /\ resetTrigger < MaxReset
    /\ isFrozen' = FALSE
    /\ alignTrigger' = ResetAlignTrigger(alignTrigger)
    /\ resetTrigger' = resetTrigger + 1
    /\ SetScenePart(Commit(ScenePart, resetTrigger, resetTrigger',
                           alignTrigger, alignTrigger', plane.normal, now))
    /\ lastEvent' = Ev("reset")
    /\ UNCHANGED frameVars
    /\ UNCHANGED << geometryType, interactionMode, geometry, plane, dragVars, now, hostVars >>

\* onShapeChange, then the commit: geometry memo, effects.
onShapeChange(t) ==
    /\ Quiet
    /\ CanStep
    /\ used' = Stepped
    /\ resetTrigger < MaxReset
    /\ geometryType' = t
    /\ geometry' = GeometryMemo(geometryType, t, geometry)
    /\ isFrozen' = FALSE
    /\ resetTrigger' = resetTrigger + 1
    /\ SetScenePart(Commit(ScenePart, resetTrigger, resetTrigger',
                           alignTrigger, alignTrigger, plane.normal, now))
    /\ lastEvent' = Ev("shape")
    /\ UNCHANGED frameVars
    /\ UNCHANGED << alignTrigger, interactionMode, plane, dragVars, now, hostVars >>

\* onAlignView, then the commit.
onAlignView ==
    /\ Quiet
    /\ CanSpend("align")
    /\ nextRafId <= MaxRaf
    /\ alignTrigger' = alignTrigger + 1
    /\ SetScenePart(Commit(ScenePart, resetTrigger, resetTrigger,
                           alignTrigger, alignTrigger', plane.normal, now))
    /\ used' = Spend("align")
    /\ lastEvent' = Ev("align")
    /\ UNCHANGED frameVars
    /\ UNCHANGED << geometryType, isFrozen, resetTrigger, interactionMode, geometry,
                    plane, dragVars, now, hostVars >>

\* A scheduled animateCam callback runs.
AnimationFrame ==
    /\ Quiet
    /\ CanStep
    /\ used' = Stepped
    /\ \E cb \in rafQueue :
        /\ StillRunning(Progress(cb, now)) => nextRafId <= MaxRaf
        /\ SetCamPart(animateCam(cb, now,
                [CamPart EXCEPT !.rafQueue = rafQueue \ {cb}]))
    /\ lastEvent' = Ev("animateCam")
    /\ UNCHANGED frameVars
    /\ UNCHANGED << appVars, interactionMode, geometry, planeVars, dragVars, now, hostVars >>

-----------------------------------------------------------------------------
\* Pointer and keyboard handlers (SlicerScene)

\* onPointerDown: does this press start a rotation drag?
StartsDrag(button, mode) ==
    LET isRightClick == button = 2
        isLeftClick  == button = 0
        isKnifeMode  == mode = "knife"
    IN  isRightClick \/ (isKnifeMode /\ isLeftClick)

onPointerDown(button) ==
    /\ Quiet
    /\ gesture = NoGesture
    /\ CanSpend("gesture")
    /\ gesture' = [button |-> button, x |-> pointer[1], y |-> pointer[2], t |-> now]
    /\ prevClick' = (prevClick /\ button = 0)
    /\ IF StartsDrag(button, interactionMode)
       THEN /\ isDraggingRotate' = TRUE
            /\ lastMouse' = [x |-> pointer[1], y |-> pointer[2], set |-> TRUE]
       ELSE UNCHANGED dragVars
    /\ used' = Spend("gesture")
    /\ lastEvent' = Ev("pointerdown")
    /\ UNCHANGED frameVars
    /\ UNCHANGED << appVars, interactionMode, geometry, planeVars, camVars, rafVars, now,
                    pointer, domQueue >>

MoveEulerSwapped(rot, last, p) ==
    Vec(rot[1] - (p[1] - last.x) * speed, rot[2] - (p[2] - last.y) * speed, rot[3])

\* onPointerMove: the orientation after a move to client position p
MoveEuler(rot, last, p) ==
    LET deltaX == p[1] - last.x
        deltaY == p[2] - last.y
    IN  Vec(rot[1] - deltaY * speed, rot[2] - deltaX * speed, rot[3])

\* onPointerMove: does the handler get past its guards?
MoveRotates(frozen, dragging, last) == ~frozen /\ dragging /\ last.set

OrbitEnabledAlways(mode) == TRUE

\* <OrbitControls enabled={interactionMode === 'camera'} />
OrbitEnabled(mode) == mode = "camera"

\* mouseButtons={{ LEFT: ROTATE, MIDDLE: DOLLY, RIGHT: null }}: does a drag with
\* this button rotate the camera?
OrbitRotates(button) == button = 0

\* OrbitControls' rotate for a pointer displacement (dx, dy), then update():
\* the camera's offset from the target turns dx centiradians about the vertical
\* axis (rotateLeft) and dy centiradians toward the pole (rotateUp), one
\* centiradian per pixel (2 pi / clientHeight for an element 628 px high); the
\* polar angle stops at the pole.
OrbitCamera(pos, target, dx, dy) ==
    LET off  == VSub(pos, target)
        x1   == Quot(off[1] * Cos(dx) - off[3] * Sin(dx), Unit)
        z1   == Quot(off[3] * Cos(dx) + off[1] * Sin(dx), Unit)
        rho  == Sqrt(x1 * x1 + z1 * z1)
        y2   == Quot(off[2] * Cos(dy) + rho * Sin(dy), Unit)
        rho2 == Quot(rho * Cos(dy) - off[2] * Sin(dy), Unit)
        rho3 == IF rho2 < 0 THEN 0 ELSE rho2
    IN  IF rho = 0 THEN pos
        ELSE VAdd(target, Vec(Quot(x1 * rho3, rho), y2, Quot(z1 * rho3, rho)))

\* A move during a press: the scene's onPointerMove, and the camera control's.
\* (With no button down isDraggingRotate is false and neither handler acts, so
\* moves between presses are not enumerated.)  A move neither handler acts on
\* changes the pointer position only and spends nothing.
onPointerMove(p) ==
    /\ Quiet
    /\ gesture # NoGesture
    /\ p # pointer
    /\ pointer' = p
    /\ LET rotates == MoveRotates(isFrozen, isDraggingRotate, lastMouse)
           orbits  == OrbitEnabled(interactionMode) /\ OrbitRotates(gesture.button)
       IN  /\ IF rotates
              THEN /\ lastMouse' = [x |-> p[1], y |-> p[2], set |-> TRUE]
                   /\ planeEuler' = MoveEuler(planeEuler, lastMouse, p)
              ELSE UNCHANGED << lastMouse, planeEuler >>
           /\ IF orbits
              THEN /\ cameraPos' = OrbitCamera(cameraPos, orbitTarget,
                                               p[1] - pointer[1], p[2] - pointer[2])
                   /\ cameraLook' = orbitTarget
              ELSE UNCHANGED << cameraPos, cameraLook >>
           /\ IF rotates THEN CanSpend("rot") /\ used' = Spend("rot")
              ELSE IF orbits THEN CanStep /\ used' = Stepped
              ELSE UNCHANGED used
    /\ lastEvent' = Ev("pointermove")
    /\ UNCHANGED frameVars
    /\ UNCHANGED << appVars, interactionMode, geometry, plane, planePos, isDraggingRotate,
                    orbitTarget, rafVars, now, gesture, domQueue, prevClick >>

\* The short-gesture classification of a primary press released at p, time `time`
IsDragGesture(g, p, time) ==
    LET dx == p[1] - g.x
        dy == p[2] - g.y
    IN  \/ dx * dx + dy * dy >= ClickPixelThreshold * ClickPixelThreshold
        \/ time - g.t >= ClickTimeThreshold

\* The mouse events the browser dispatches after the release of a press: a
\* click for the primary button, and a dblclick after it when it is the second
\* click in quick succession.
ReleaseEvents(g, p, time, second) ==
    IF g.button # 0 THEN << >>
    ELSE << [type |-> "click", drag |-> IsDragGesture(g, p, time)] >>
         \o (IF second THEN << [type |-> "dblclick", drag |-> FALSE] >> ELSE << >>)

onPointerUp ==
    /\ Quiet
    /\ gesture # NoGesture
    /\ IF isDraggingRotate
       THEN /\ isDraggingRotate' = FALSE
            /\ lastMouse' = NoMouse
       ELSE UNCHANGED dragVars
    /\ domQueue' = ReleaseEvents(gesture, pointer, now, prevClick)
    /\ gesture' = NoGesture
    /\ prevClick' = FALSE
    /\ lastEvent' = Ev("pointerup")
    /\ UNCHANGED frameVars
    /\ UNCHANGED << appVars, interactionMode, geometry, planeVars, camVars, rafVars, now,
                    pointer, used >>

\* e.key.toLowerCase()
ToLowerCase(key) ==
    CASE key = "Q" -> "q" [] key = "E" -> "e" [] key = "A" -> "a"
      [] key = "D" -> "d" [] key = "W" -> "w" [] key = "S" -> "s"
      [] OTHER -> key

\* handleKeyDown past the frozen guard: the six ifs in order
KeyEuler(rot, key) ==
    LET k  == ToLowerCase(key)
        r1 == IF k = "q" THEN Vec(rot[1], rot[2], rot[3] + step) ELSE rot
        r2 == IF k = "e" THEN Vec(r1[1], r1[2], r1[3] - step) ELSE r1
        r3 == IF k = "a" THEN Vec(r2[1], r2[2] + step, r2[3]) ELSE r2
        r4 == IF k = "d" THEN Vec(r3[1], r3[2] - step, r3[3]) ELSE r3
        r5 == IF k = "w" THEN Vec(r4[1] + step, r4[2], r4[3]) ELSE r4
        r6 == IF k = "s" THEN Vec(r5[1] - step, r5[2], r5[3]) ELSE r5
    IN  r6

handleKeyDown(key) ==
    /\ Quiet
    /\ IF isFrozen
       THEN /\ CanStep
            /\ used' = Stepped
            /\ UNCHANGED planeEuler
       ELSE /\ planeEuler' = KeyEuler(planeEuler, key)
            /\ IF planeEuler' # planeEuler
               THEN /\ CanSpend("rot")
                    /\ used' = Spend("rot")
               ELSE /\ CanStep
                    /\ used' = Stepped
    /\ lastEvent' = Ev("keydown")
    /\ UNCHANGED frameVars
    /\ UNCHANGED << appVars, interactionMode, geometry, plane, planePos, dragVars, camVars,
                    rafVars, now, hostVars >>

-----------------------------------------------------------------------------
\* Per-frame update (SlicerScene.useFrame)

FollowsWhileFrozen(frozen, dragging) == ~dragging
FollowsWhileDragging(frozen, dragging) == ~frozen

\* The guard of the position-follow step
Follows(frozen, dragging) == ~frozen /\ ~dragging

\* What a frame does: the follow step if its guard allows, then the shared
\* plane, the cap and the draw order
RenderFrame(hit) ==
    /\ Quiet
    /\ planePos' = IF Follows(isFrozen, isDraggingRotate)
                   THEN FollowPointer(planePos, hit)
                   ELSE planePos
    /\ plane' = DerivePlane(planePos', planeEuler)
    /\ capPosition' = CapPosition(PlaneSeenByCap(FrameSubscribers, plane, plane'))
    /\ lastEvent' = [name |-> "frame", drag |-> FALSE, hit |-> hit # NoHit]
    /\ rendered' = TRUE
    /\ \E z \in Depths : drawn' = RenderList(RenderPasses(renderOrder), z)
    /\ UNCHANGED << appVars, interactionMode, geometry, planeEuler, dragVars, camVars,
                    rafVars, now, hostVars >>

useFrame(hit) ==
    /\ IF Follows(isFrozen, isDraggingRotate)
       THEN /\ CanSpend("follow")
            /\ used' = Spend("follow")
       ELSE /\ CanStep
            /\ used' = Stepped
    /\ RenderFrame(hit)

\* Time passes (Date.now advances); a pending second click times out.
Tick ==
    /\ Quiet
    /\ CanSpend("ticks")
    /\ now' = now + TickMs
    /\ prevClick' = FALSE
    /\ used' = Spend("ticks")
    /\ UNCHANGED frameVars
    /\ UNCHANGED << appVars, interactionMode, geometry, planeVars, dragVars, camVars,
                    rafVars, pointer, gesture, domQueue, lastEvent >>

-----------------------------------------------------------------------------
Next ==
    \/ handleCanvasClick
    \/ onDoubleClick
    \/ onToggleFreeze
    \/ handleReset
    \/ \E t \in GeometryTypes : onShapeChange(t)
    \/ onAlignView
    \/ AnimationFrame
    \/ \E b \in Buttons : onPointerDown(b)
    \/ \E p \in Points : onPointerMove(p)
    \/ onPointerUp
    \/ \E k \in SceneKeys : handleKeyDown(k)
    \/ \E h \in RayHits \cup {NoHit} : useFrame(h)
    \/ Tick

Spec == Init /\ [][Next]_vars

-----------------------------------------------------------------------------
\* The keyboard handler in IEEE-754 double arithmetic
\*
\* euler.z += step adds doubles and rounds the sum to 53 significant bits, ties
\* to even.  Every value the handler can produce from 0 is an integer multiple
\* of 2^-56 (the unit in the last place of 0.1), so a double is held exactly as
\* [neg, hi, lo], of magnitude (hi * 2^28 + lo) * 2^-56, for magnitudes below 2.

MaxKeys == 4   \* key presses explored in double arithmetic

Limb == 2^28

DZero == [neg |-> FALSE, hi |-> 0, lo |-> 0]

\* const step = 0.1: the double nearest 0.1, 7205759403792794 * 2^-56
DStep == [neg |-> FALSE, hi |-> 26843545, lo |-> 161061274]

DNegStep == [DStep EXCEPT !.neg = TRUE]

MagLess(a, b) == a.hi < b.hi \/ (a.hi = b.hi /\ a.lo < b.lo)

MagAdd(a, b) ==
    LET lo == a.lo + b.lo
    IN  [hi |-> a.hi + b.hi + lo \div Limb, lo |-> lo % Limb]

\* a - b for magnitudes a >= b
MagSub(a, b) ==
    LET lo == a.lo - b.lo
    IN  IF lo < 0 THEN [hi |-> a.hi - b.hi - 1, lo |-> lo + Limb]
                  ELSE [hi |-> a.hi - b.hi, lo |-> lo]

RECURSIVE BitLength(_)
BitLength(n) == IF n = 0 THEN 0 ELSE 1 + BitLength(n \div 2)

\* Bits of the magnitude below the 53 a double keeps (hi has 25 of the 53)
ExcessBits(m) == IF BitLength(m.hi) > 25 THEN BitLength(m.hi) - 25 ELSE 0

\* The unit in the last place of a double of magnitude m, in units of 2^-56
UlpOf(m) == 2^ExcessBits(m)

\* Round magnitude m to a multiple of ulp, ties to even
RoundToUlp(m, ulp) ==
    LET r    == m.lo % ulp
        half == ulp \div 2
        odd  == (m.lo \div ulp) % 2 = 1
        up   == r > half \/ (r = half /\ odd)
        lo   == m.lo - r + (IF up THEN ulp ELSE 0)
    IN  IF ulp = 1 THEN m
        ELSE IF lo >= Limb THEN [hi |-> m.hi + 1, lo |-> lo - Limb]
                           ELSE [hi |-> m.hi, lo |-> lo]

\* Round an exact magnitude to 53 significant bits, ties to even (the magnitude
\* and its unit in the last place are bound so that each is computed once)
RoundToDouble(m) ==
    CHOOSE r \in { RoundToUlp(x, ulp) : x \in { m }, ulp \in { UlpOf(m) } } : TRUE

Signed(neg, m) == [neg |-> neg, hi |-> m.hi, lo |-> m.lo]

\* a + b in double arithmetic (a - b is a + (-b))
DAdd(a, b) ==
    IF a.neg = b.neg THEN Signed(a.neg, RoundToDouble(MagAdd(a, b)))
    ELSE IF MagLess(a, b) THEN Signed(b.neg, RoundToDouble(MagSub(b, a)))
    ELSE IF MagLess(b, a) THEN Signed(a.neg, RoundToDouble(MagSub(a, b)))
    ELSE DZero

\* |a - b|, exact
DDistance(a, b) ==
    IF a.neg # b.neg THEN MagAdd(a, b)
    ELSE IF MagLess(a, b) THEN MagSub(b, a) ELSE MagSub(a, b)

\* The six ifs of handleKeyDown on key k; their conditions exclude one another,
\* so at most one of them acts.
KeyEulerDoubleCaseSensitive(rot, k) ==
    CASE k = "q" -> Vec(rot[1], rot[2], DAdd(rot[3], DStep))
      [] k = "e" -> Vec(rot[1], rot[2], DAdd(rot[3], DNegStep))
      [] k = "a" -> Vec(rot[1], DAdd(rot[2], DStep), rot[3])
      [] k = "d" -> Vec(rot[1], DAdd(rot[2], DNegStep), rot[3])
      [] k = "w" -> Vec(DAdd(rot[1], DStep), rot[2], rot[3])
      [] k = "s" -> Vec(DAdd(rot[1], DNegStep), rot[2], rot[3])
      [] OTHER -> rot

\* handleKeyDown past the frozen guard, on doubles: e.key.toLowerCase(), the ifs
KeyEulerDouble(rot, key) == KeyEulerDoubleCaseSensitive(rot, ToLowerCase(key))

\* handleKeyDown with the orientation held in doubles
handleKeyDownDouble(key) ==
    /\ Quiet
    /\ used.inputs < MaxKeys
    /\ used' = Stepped
    /\ planeEuler' = IF isFrozen THEN planeEuler ELSE KeyEulerDouble(planeEuler, key)
    /\ lastEvent' = [name |-> "keydown", drag |-> FALSE, key |-> key]
    /\ UNCHANGED frameVars
    /\ UNCHANGED << appVars, interactionMode, geometry, plane, planePos, dragVars, camVars,
                    rafVars, now, hostVars >>

KeyInit ==
    /\ InitScene
    /\ planeEuler = Vec(DZero, DZero, DZero)
    /\ cameraPos = Mounted.cameraPos

KeyNext ==
    \/ \E k \in Keys : handleKeyDownDouble(k)
    \/ onToggleFreeze

\* The scene under key presses and freeze toggles, orientation in doubles
KeySpec == KeyInit /\ [][KeyNext]_vars

-----------------------------------------------------------------------------
\* The align animation with the camera position held as doubles.  A coordinate
\* is a record [neg, hi, lo] as above, here of magnitude (hi * 2^28 + lo) * 2^-54,
\* which is exact for the doubles between 1/4 and 16 and for zero.

DFour == [neg |-> FALSE, hi |-> 4 * 2^26, lo |-> 0]
DSix  == [neg |-> FALSE, hi |-> 6 * 2^26, lo |-> 0]

\* <Canvas camera={{ position: [4, 4, 6] }}> and the reset effect's defaultPos
defaultPosDouble == Vec(DFour, DFour, DSix)

DNeg(a) == IF a = DZero THEN a ELSE [a EXCEPT !.neg = ~a.neg]

\* targetPos = center + normal * -distance in doubles, for the normals a frame
\* derives after zero to four key steps about z: the up vector rotated by
\* Quaternion.setFromEuler(0, 0, z), normalized, times -5.  Keyed by the normal
\* on the grid of thousandths.
AlignTargetDouble(normal) ==
    CASE normal = Vec(0, 1000, 0) ->
           Vec(DZero,
               [neg |-> TRUE, hi |-> 335544320, lo |-> 0],              \* -5
               DZero)
      [] normal = Vec(-100, 995, 0) ->
           Vec([neg |-> FALSE, hi |-> 33498535, lo |-> 242138615],      \* 0.4991670832341408
               [neg |-> TRUE, hi |-> 333867996, lo |-> 9498000],        \* -4.975020826390129
               DZero)
      [] normal = Vec(-199, 980, 0) ->
           Vec([neg |-> FALSE, hi |-> 66662365, lo |-> 135958232],      \* 0.9933466539753062
               [neg |-> TRUE, hi |-> 328855773, lo |-> 111794368],      \* -4.900332889206208
               DZero)
      [] normal = Vec(-296, 955, 0) ->
           Vec([neg |-> FALSE, hi |-> 99160126, lo |-> 212181764],      \* 1.477601033306698
               [neg |-> TRUE, hi |-> 320557732, lo |-> 165044544],      \* -4.77668244562803
               DZero)
      [] normal = Vec(-389, 921, 0) ->
           Vec([neg |-> FALSE, hi |-> 130667112, lo |-> 232326416],     \* 1.9470917115432522
               [neg |-> TRUE, hi |-> 309056784, lo |-> 244604336],      \* -4.6053049700144255
               DZero)

\* Vector3.lerpVectors(v1, v2, alpha): v1 + (v2 - v1) * alpha on each
\* coordinate, for the two values of alpha whose product is exact: 0 and 1.
\* (The difference is bound to d so that it is computed once.)
LerpDouble(a, b, alpha) ==
    CASE alpha = 0    -> DAdd(a, DZero)
      [] alpha = Unit -> CHOOSE sum \in { DAdd(a, d) : d \in { DAdd(b, DNeg(a)) } } : TRUE

LerpVectorsDouble(v1, v2, alpha) ==
    Vec(LerpDouble(v1[1], v2[1], alpha), LerpDouble(v1[2], v2[2], alpha),
        LerpDouble(v1[3], v2[3], alpha))

animateCamDouble(cb, time, c) ==
    LET t == Progress(cb, time)
    IN  AnimateCamStep(cb, t, LerpVectorsDouble(cb.startPos, cb.targetPos, EaseOutCubic(t)), c)

AlignEffectDouble(c, normal, time) ==
    LET cancelled == [c EXCEPT !.rafQueue = AlignCancel(c.rafQueue, c.animationFrameRef)]
        cb == [startPos |-> c.cameraPos, targetPos |-> AlignTargetDouble(normal),
               startTime |-> time]
    IN  animateCamDouble(cb, time, cancelled)

ResetEffectDouble(s) == [ResetEffect(s) EXCEPT !.cameraPos = defaultPosDouble]

CommitDouble(s, r0, r1, a0, a1, normal, time) ==
    CommitWith(ResetEffectDouble, AlignEffectDouble, s, r0, r1, a0, a1, normal, time)

onAlignViewDouble ==
    /\ Quiet
    /\ CanSpend("align")
    /\ nextRafId <= MaxRaf
    /\ alignTrigger' = alignTrigger + 1
    /\ \E s \in { CommitDouble(ScenePart, resetTrigger, resetTrigger,
                                alignTrigger, alignTrigger + 1, plane.normal, now) } :
          SetScenePart(s)
    /\ used' = Spend("align")
    /\ lastEvent' = Ev("align")
    /\ UNCHANGED frameVars
    /\ UNCHANGED << geometryType, isFrozen, resetTrigger, interactionMode, geometry,
                    plane, dragVars, now, hostVars >>

handleResetDouble ==
    /\ Quiet
    /\ CanStep
    /\ used' = Stepped
    /\ resetTrigger < MaxReset
    /\ isFrozen' = FALSE
    /\ alignTrigger' = ResetAlignTrigger(alignTrigger)
    /\ resetTrigger' = resetTrigger + 1
    /\ \E s \in { CommitDouble(ScenePart, resetTrigger, resetTrigger + 1, alignTrigger,
                                ResetAlignTrigger(alignTrigger), plane.normal, now) } :
          SetScenePart(s)
    /\ lastEvent' = Ev("reset")
    /\ UNCHANGED frameVars
    /\ UNCHANGED << geometryType, interactionMode, geometry, plane, dragVars, now, hostVars >>

\* The browser runs a scheduled animateCam; frames cost nothing here, only the
\* supply of frame ids bounds how often a running animation is stepped.
AnimationFrameDouble ==
    /\ Quiet
    /\ \E cb \in rafQueue :
        /\ StillRunning(Progress(cb, now)) => nextRafId <= MaxRaf
        /\ \E c \in { animateCamDouble(cb, now, [CamPart EXCEPT !.rafQueue = rafQueue \ {cb}]) } :
              SetCamPart(c)
    /\ lastEvent' = Ev("animateCam")
    /\ UNCHANGED frameVars
    /\ UNCHANGED << appVars, interactionMode, geometry, planeVars, dragVars, now, hostVars,
                    used >>

\* The clock reaches the end of a running animation.  No animation runs longer
\* than one such advance, so the clock never passes MaxAlign of them.
ClockTick ==
    /\ Quiet
    /\ \E cb \in rafQueue : StillRunning(Progress(cb, now))
    /\ now < MaxAlign * duration
    /\ now' = now + duration
    /\ prevClick' = FALSE
    /\ UNCHANGED frameVars
    /\ UNCHANGED << appVars, interactionMode, geometry, planeVars, dragVars, camVars,
                    rafVars, pointer, gesture, domQueue, lastEvent, used >>

\* The scene as App mounts it (no interactionMode prop)
AlignInit ==
    /\ InitScene
    /\ interactionMode = "undefined"
    /\ planeEuler = Mounted.planeEuler
    /\ cameraPos = defaultPosDouble

AlignNext ==
    \/ onAlignViewDouble
    \/ handleResetDouble
    \/ AnimationFrameDouble
    \/ ClockTick
    \/ \E k \in SceneKeys : handleKeyDown(k)
    \/ useFrame(NoHit)

\* Frames keep coming and time keeps passing while an animation is scheduled:
\* requestAnimationFrame callbacks are run by the browser's next frame.
AlignFairness == WF_vars(AnimationFrameDouble) /\ WF_vars(ClockTick)

\* The scene under align, reset, key steps and frames, camera in doubles
AlignSpec == AlignInit /\ [][AlignNext]_vars /\ AlignFairness

-----------------------------------------------------------------------------
\* The plane following a pointer that rests, frame after frame

\* Where the pointer ray meets the pick plane: far out along a diagonal,
\* beyond the clamp
FollowHits == { Vec(2000, 2000, 2000) }

\* A frame among any number of frames
useFrameRepeated(hit) ==
    /\ RenderFrame(hit)
    /\ UNCHANGED used

\* The scene as mounted, or with one key step taken before the first frame
FollowInit ==
    /\ InitScene
    /\ interactionMode = "undefined"
    /\ planeEuler \in { Mounted.planeEuler } \cup { KeyEuler(Mounted.planeEuler, k) : k \in SceneKeys }
    /\ cameraPos = Mounted.cameraPos

FollowNext ==
    \/ \E hit \in FollowHits \cup { NoHit } : useFrameRepeated(hit)
    \/ handleReset

\* The scene rendering frames without end, with resets
FollowSpec == FollowInit /\ [][FollowNext]_vars

-----------------------------------------------------------------------------
\* Properties

FreezeEvents == { "click", "dblclick", "toggle" }
ResetEvents  == { "reset", "shape" }

\* C1 (as stated): while frozen no event but a reset or a solid-type change
\* changes the accumulators, and every frame rendered while frozen renders the
\* plane equation of the frame before it, back to the last frame before freezing.
C1_FrozenFramesRepeatLastFrame ==
    [][ isFrozen =>
          /\ (planePos' # planePos \/ planeEuler' # planeEuler)
                => (lastEvent'.name \in ResetEvents /\ ~isFrozen')
          /\ (rendered /\ lastEvent'.name = "frame") => plane' = plane ]_vars

\* C1 (amended): while frozen no event but a reset or a solid-type change (which
\* clear the flag) changes the accumulators; a frame rendered while frozen
\* renders the plane equation derived from the accumulators as they stood when
\* the flag was set, and once a frozen frame has rendered it the shared plane
\* stays the same for as long as the flag stays set.
C1_FreezeGate ==
    [][ isFrozen =>
          /\ (planePos' # planePos \/ planeEuler' # planeEuler)
                => (lastEvent'.name \in ResetEvents /\ ~isFrozen')
          /\ (lastEvent'.name = "frame" /\ used' # used)
                => plane' = DerivePlane(planePos, planeEuler)
          /\ (isFrozen' /\ plane = DerivePlane(planePos, planeEuler))
                => plane' = plane ]_vars

\* A pointer move was delivered to a drag in progress while frozen, with the
\* orientation away from zero.
C1_Witness ==
    /\ isFrozen
    /\ lastEvent.name = "pointermove"
    /\ isDraggingRotate /\ lastMouse.set
    /\ planeEuler # Zero3

\* C2: the click that ends a press classified as a drag never sets the flag.
C2_DragNeverFreezes ==
    [][ (domQueue # << >> /\ Head(domQueue).type = "click" /\ Head(domQueue).drag)
           => ~(~isFrozen /\ isFrozen') ]_vars

\* C3: the click that ends a press below both thresholds, in camera mode with
\* the flag clear, sets the flag.
C3_ShortClickFreezes ==
    [][ ( /\ domQueue # << >>
          /\ Head(domQueue).type = "click"
          /\ ~Head(domQueue).drag
          /\ domQueue' = Tail(domQueue)
          /\ interactionMode = "camera"
          /\ ~isFrozen )
           => isFrozen' ]_vars

\* The one press of the run so far ended in a short click, in camera mode.
C3_Witness ==
    /\ lastEvent = [name |-> "click", drag |-> FALSE]
    /\ interactionMode = "camera"
    /\ used.inputs = 1 /\ used.gesture = 1
    /\ isFrozen

\* C4: once the dblclick of a double-click has been delivered (its two clicks
\* before it), the flag is clear.
C4_DoubleClickUnfreezes ==
    (lastEvent.name = "dblclick" /\ Quiet) => ~isFrozen

\* A second press in quick succession was released and its dblclick delivered.
C4_Witness ==
    /\ lastEvent.name = "dblclick"
    /\ Quiet
    /\ used.gesture = 2
    /\ ~isFrozen

\* C5: a canvas click, a double-click and a freeze toggle change nothing but the
\* flag: accumulators, plane equation, camera, scheduled animation step and
\* trigger counters are as before.
C5_FreezeChangesOnlyFlag ==
    [][ lastEvent'.name \in FreezeEvents
           => UNCHANGED << planeVars, camVars, rafVars, alignTrigger, resetTrigger,
                           geometryType, geometry, dragVars >> ]_vars

\* The flag was toggled with an animation step scheduled and the plane rotated.
C5_Witness ==
    /\ lastEvent.name = "toggle"
    /\ isFrozen
    /\ rafQueue # {}
    /\ planeEuler # Zero3

\* C6: a reset leaves the plane position and orientation at zero, the flag
\* clear and the camera at (4,4,6) aimed at the origin, from any state; a reset
\* that follows a reset changes nothing of the scene.
C6_ResetRestoresDefaults ==
    [][ (lastEvent'.name = "reset" /\ resetTrigger' = resetTrigger + 1)
           => /\ planePos' = Vec(0, 0, 0)
              /\ planeEuler' = Vec(0, 0, 0)
              /\ ~isFrozen'
              /\ cameraPos' = Vec(4 * Unit, 4 * Unit, 6 * Unit)
              /\ cameraLook' = Vec(0, 0, 0)
              /\ orbitTarget' = Vec(0, 0, 0)
              /\ lastEvent.name = "reset"
                    => UNCHANGED << planeVars, camVars, rafVars, dragVars, isFrozen,
                                    alignTrigger, geometryType, geometry >> ]_vars

\* A first reset arrived with the plane rotated and moved and an animation step
\* scheduled.
C6_Witness ==
    /\ lastEvent.name = "reset"
    /\ resetTrigger = 1
    /\ used.rot = 1 /\ used.follow = 1 /\ used.align = 1
    /\ planePos = Zero3 /\ planeEuler = Zero3 /\ cameraPos = defaultPos

\* C7: after a reset the interaction mode is camera.
C7_ResetReturnsToCameraMode ==
    lastEvent.name = "reset" => interactionMode = "camera"

\* C8: at most one animation step is scheduled, and it is the one the handle
\* names; after a reset or a solid-type change none is; only an align-view
\* event schedules one when none is scheduled, and with none scheduled only a
\* reset (or the pointer, through the orbit control) moves the camera.
C8_OneAnimationInFlight ==
    [][ /\ Cardinality(rafQueue') <= 1
        /\ \A r \in rafQueue' : r.id = animationFrameRef'
        /\ (lastEvent'.name \in ResetEvents /\ resetTrigger' # resetTrigger)
              => (rafQueue' = {} /\ animationFrameRef' = 0)
        /\ (rafQueue = {} /\ rafQueue' # {}) => lastEvent'.name = "align"
        /\ (rafQueue = {} /\ cameraPos' # cameraPos)
              => lastEvent'.name \in ResetEvents \cup {"pointermove"} ]_vars

\* A second align-view event arrived while the step of the first was scheduled.
C8_Witness ==
    /\ lastEvent.name = "align"
    /\ alignTrigger = 2
    /\ Cardinality(rafQueue) = 1
    /\ nextRafId = 3

\* C9: an align-view event schedules an animation whose target is -5 times the
\* shared plane's normal at that moment; no other event changes the closure of
\* a scheduled animation.
C9_AlignTargetFixedAtTrigger ==
    [][ IF lastEvent'.name = "align" /\ used'.align = used.align + 1
        THEN \A r \in rafQueue' :
                r.targetPos = Vec(-5 * plane.normal[1], -5 * plane.normal[2],
                                  -5 * plane.normal[3])
        ELSE \A r \in rafQueue' : \E q \in rafQueue :
                /\ r.targetPos = q.targetPos
                /\ r.startPos = q.startPos
                /\ r.startTime = q.startTime ]_vars

\* An animation step ran and scheduled the next one after the shared plane had
\* turned away from the normal the animation was triggered under.
C9_Witness ==
    /\ lastEvent.name = "animateCam"
    /\ \E r \in rafQueue : r.targetPos # AlignTarget(plane.normal)

\* C10 (as stated): neither trigger counter ever decreases.
C10_CountersNeverDecrease ==
    [][ alignTrigger' >= alignTrigger /\ resetTrigger' >= resetTrigger ]_vars

\* C10 (amended): the reset counter never decreases, and the align-view counter
\* never decreases except that a reset event sets it to 0.
C10_CountersMonotoneUpToReset ==
    [][ /\ resetTrigger' >= resetTrigger
        /\ \/ alignTrigger' >= alignTrigger
           \/ /\ alignTrigger' = 0
              /\ lastEvent'.name = "reset"
              /\ resetTrigger' = resetTrigger + 1 ]_vars

\* A reset arrived after two align-view events.
C10_Witness ==
    /\ lastEvent.name = "reset"
    /\ used.align = 2
    /\ alignTrigger = 0

\* An event of the given kind was handled in this step.
Handled(name) == lastEvent'.name = name /\ now' = now

\* A camera animation was started in this step: requestAnimationFrame was
\* called outside a scheduled step.
AnimationStarted == nextRafId' # nextRafId /\ ~Handled("animateCam")

\* The post-state is that of a performed reset.
ResetPerformed ==
    /\ planePos' = Zero3 /\ planeEuler' = Zero3
    /\ cameraPos' = defaultPos /\ orbitTarget' = defaultTarget
    /\ animationFrameRef' = 0 /\ rafQueue' = {}

\* C11: the mount, with both counters 0, starts nothing; an animation starts
\* exactly in the steps that change the align counter to a non-zero value, and
\* then exactly one (one requestAnimationFrame call, one scheduled closure, that
\* of the new animation); a counter that becomes 0 starts nothing; every
\* align-view event is such a step and every reset or solid-type event changes
\* the reset counter to a non-zero value and performs the reset, whatever
\* happened before; with the reset counter unchanged no step does a reset's work.
C11_TriggersAreEdgeTriggered ==
    [][ /\ lastEvent.name = "mount"
            => (rafQueue = {} /\ nextRafId = 1 /\ animationFrameRef = 0)
        /\ AnimationStarted <=> (alignTrigger' # alignTrigger /\ alignTrigger' # 0)
        /\ AnimationStarted
            => /\ nextRafId' = nextRafId + 1
               /\ rafQueue' = { [id |-> nextRafId, startPos |-> cameraPos,
                                 targetPos |-> AlignTarget(plane.normal),
                                 startTime |-> now] }
               /\ animationFrameRef' = nextRafId
        /\ Handled("align") => AnimationStarted
        /\ (Handled("reset") \/ Handled("shape"))
            => (resetTrigger' # resetTrigger /\ resetTrigger' # 0 /\ ResetPerformed)
        /\ resetTrigger' = resetTrigger
            => /\ planeEuler' # planeEuler
                   => (Handled("keydown") \/ Handled("pointermove"))
               /\ planePos' # planePos => Handled("frame")
               /\ (rafQueue # {} /\ rafQueue' = {}) => Handled("animateCam") ]_vars

\* A second align-view event followed the first with nothing in between.
C11_Witness ==
    /\ lastEvent.name = "align"
    /\ alignTrigger = 2
    /\ used.inputs = 2
    /\ Cardinality(rafQueue) = 1

\* C12: a pointer move handled while a drag is in progress and the flag is
\* clear, displaced (dx, dy) pixels from the recorded last position, takes
\* 0.01*dx rad (dx centiradians) off orientation.y and 0.01*dy rad off
\* orientation.x and leaves orientation.z and the position as they were; a
\* secondary-button drag of (50, 0) in camera mode takes 0.5 rad off
\* orientation.y and leaves orientation.x as it was.
C12_PointerDeltaRotates ==
    [][ (Handled("pointermove") /\ ~isFrozen /\ isDraggingRotate /\ lastMouse.set)
           => LET dx == pointer'[1] - lastMouse.x
                  dy == pointer'[2] - lastMouse.y
              IN  /\ planeEuler'[2] = planeEuler[2] - dx
                  /\ planeEuler'[1] = planeEuler[1] - dy
                  /\ planeEuler'[3] = planeEuler[3]
                  /\ planePos' = planePos
                  /\ (gesture.button = 2 /\ interactionMode = "camera"
                        /\ dx = 50 /\ dy = 0)
                       => (planeEuler'[2] = planeEuler[2] - 50
                             /\ planeEuler'[1] = planeEuler[1]) ]_vars

\* A secondary-button drag in camera mode moved (50, 0) in one event, from the
\* initial orientation.
C12_Witness ==
    /\ lastEvent.name = "pointermove"
    /\ interactionMode = "camera"
    /\ gesture.button = 2
    /\ ~isFrozen
    /\ used.rot = 1
    /\ lastMouse = [x |-> 50, y |-> 0, set |-> TRUE]
    /\ planeEuler = Vec(0, -50, 0)

\* The step a key applies: axis (1 = x, 2 = y, 3 = z) and signed step
KeyTable ==
    [q |-> << 3, DStep >>, e |-> << 3, DNegStep >>,
     a |-> << 2, DStep >>, d |-> << 2, DNegStep >>,
     w |-> << 1, DStep >>, s |-> << 1, DNegStep >>,
     Q |-> << 3, DStep >>, E |-> << 3, DNegStep >>,
     A |-> << 2, DStep >>, D |-> << 2, DNegStep >>,
     W |-> << 1, DStep >>, S |-> << 1, DNegStep >>]

KeyPairs == { << "q", "e" >>, << "a", "d" >>, << "w", "s" >> }

\* The orientation after pressing key k1 and then key k2 with the flag clear
PressedTwice(rot, k1, k2) == KeyEulerDouble(KeyEulerDouble(rot, k1), k2)

\* Each keydown of one of the six keys, in either case, with the flag clear
\* adds one step of 0.1 rad (rounded as a double sum) to exactly one axis, in
\* the direction of the key; every other key leaves the orientation as it was.
KeyStepsApplied ==
    [][ (Handled("keydown") /\ ~isFrozen)
           => LET k == lastEvent'.key
              IN  IF k \in DOMAIN KeyTable
                  THEN \A axis \in 1..3 :
                          planeEuler'[axis] =
                             IF axis = KeyTable[k][1]
                             THEN DAdd(planeEuler[axis], KeyTable[k][2])
                             ELSE planeEuler[axis]
                  ELSE planeEuler' = planeEuler ]_vars

WithinOneUlp(a, b, x, y) ==
    LET ulp == IF UlpOf(x) > UlpOf(y) THEN UlpOf(x) ELSE UlpOf(y)
    IN  ~MagLess([hi |-> 0, lo |-> ulp], DDistance(a, b))

C14_ShapeChangeResetsPoseAndMesh ==
    [][ /\ Handled("shape")
            => /\ planePos' = Vec(0, 0, 0)
               /\ planeEuler' = Vec(0, 0, 0)
               /\ geometry' = createGeometry(geometryType')
               /\ geometryType' # geometryType
                    => (geometry' # geometry
                          /\ geometry' # createGeometry(geometryType))
        /\ geometry' = createGeometry(geometryType')
        /\ \A u \in AllGeometryTypes \ {geometryType'} :
              geometry' # createGeometry(u) ]_vars

\* The sphere was selected with the cube rendered, the plane rotated and moved.
C14_Witness ==
    /\ lastEvent.name = "shape"
    /\ geometryType = "Sphere"
    /\ geometry = Geometry("SphereGeometry", "1.4, 64, 64")
    /\ used.rot = 1 /\ used.follow = 1 /\ used.inputs = 3
    /\ planePos = Zero3 /\ planeEuler = Zero3

C17_OneDriverPerDrag ==
    [][ Handled("pointermove")
           => LET dx == pointer'[1] - pointer[1]
                  dy == pointer'[2] - pointer[2]
                  orbited == /\ cameraPos' = OrbitCamera(cameraPos, orbitTarget, dx, dy)
                             /\ cameraPos' # cameraPos
                  rotated == planeEuler' = MoveEuler(planeEuler, lastMouse, pointer')
              IN  /\ ~(cameraPos' # cameraPos /\ planeEuler' # planeEuler)
                  /\ (interactionMode = "camera" /\ gesture.button = 0)
                        => (orbited /\ planeEuler' = planeEuler)
                  /\ (interactionMode = "camera" /\ gesture.button = 2)
                        => (cameraPos' = cameraPos /\ (~isFrozen => rotated))
                  /\ interactionMode = "knife"
                        => (cameraPos' = cameraPos /\ (~isFrozen => rotated))
                  /\ interactionMode = "undefined" => cameraPos' = cameraPos ]_vars

\* Orientations grown far beyond one turn: about 159 turns forward on an axis,
\* about 159 turns backward, or none.
LargeAngles == { 0, 100 * 1000, -99999 }
LargeEulers == { Vec(x, y, z) : x \in LargeAngles, y \in LargeAngles, z \in LargeAngles }

NormalInit ==
    /\ InitScene
    /\ planeEuler \in LargeEulers
    /\ cameraPos = Mounted.cameraPos

NormalNext ==
    \/ \E hit \in RayHits \cup { NoHit } : useFrame(hit)
    \/ \E k \in SceneKeys : handleKeyDown(k)
    \/ onToggleFreeze

\* The scene rendering frames and taking key steps from a large orientation
NormalSpec == NormalInit /\ [][NormalNext]_vars

\* The error the grid of thousandths allows in a length of one
NormalTolerance == 2 * (Unit \div 1000)

Abs(n) == IF n < 0 THEN -n ELSE n

\* C18: whatever the accumulated orientation, the normal a frame derives from
\* it is that of DeriveNormal and has length one within the grid's tolerance.
C18_NormalIsUnitLength ==
    /\ Abs(VLength(plane.normal) - Unit) <= NormalTolerance
    /\ (rendered /\ lastEvent.name = "frame") => plane.normal = DeriveNormal(planeEuler)

\* A frame has derived a tilted normal from an orientation that a key step
\* moved on from many turns on every axis.
C18_Witness ==
    /\ lastEvent.name = "frame"
    /\ \A i \in 1..3 : Abs(planeEuler[i]) > 314 * 100
    /\ used.rot > 0
    /\ plane.normal # Vec(0, Unit, 0)
    /\ plane.normal = DeriveNormal(planeEuler)

\* A primary-button drag in camera mode has moved the camera off its default
\* position and left the orientation alone.
C17_Witness ==
    /\ lastEvent.name = "pointermove"
    /\ interactionMode = "camera"
    /\ gesture.button = 0
    /\ cameraPos # defaultPos
    /\ planeEuler = Zero3
    /\ used.inputs = 2

\* C19: a press received while the flag is set starts no drag, a primary press
\* in camera mode starts none, and a drag starts only on a secondary press or a
\* primary press in knife mode.
C19_DragStartsOnlyUnfrozen ==
    [][ (Handled("pointerdown") /\ ~isDraggingRotate /\ isDraggingRotate')
           => /\ ~isFrozen
              /\ gesture'.button = 2 \/ (gesture'.button = 0 /\ interactionMode = "knife") ]_vars

\* C20: during a drag every pointer move records the position of its event, so
\* the delta a move applies is the displacement since the event before it.
C20_MoveRecordsLastPosition ==
    [][ (Handled("pointermove") /\ isDraggingRotate /\ lastMouse.set)
           => /\ lastMouse' = [x |-> pointer'[1], y |-> pointer'[2], set |-> TRUE]
              /\ lastMouse = [x |-> pointer[1], y |-> pointer[2], set |-> TRUE] ]_vars

\* C21: in every frame the cap quad sits at -offset * normal of the plane that
\* clips the solid in that frame.
C21_CapTracksPlaneWithoutLag ==
    [][ Handled("frame") => capPosition' = CapPosition(plane') ]_vars

\* C22: at the end of every frame, frozen or not, the shared plane is the pure
\* derivation from the accumulators: the normal is the up vector rotated by the
\* orientation (normalized), the offset is minus the dot product of that normal
\* and the position; nothing of the plane's previous value enters.
C22_PlaneIsPureDerivation ==
    [][ Handled("frame")
           => /\ plane'.normal = Normalize(RotateUp(planeEuler'))
              /\ plane'.constant = -Quot(VDot(plane'.normal, planePos'), Unit) ]_vars

\* A frame rendered while frozen has derived a tilted plane off the origin from
\* accumulators a follow step and a key step had changed.
C22_Witness ==
    /\ lastEvent.name = "frame"
    /\ isFrozen
    /\ planeEuler # Zero3
    /\ planePos # Zero3
    /\ plane.constant # 0
    /\ plane.normal # Vec(0, Unit, 0)
    /\ plane.constant = -Quot(VDot(plane.normal, planePos), Unit)

WithinTwoUlps(a, b, x, y) ==
    LET ulp == IF UlpOf(x) > UlpOf(y) THEN UlpOf(x) ELSE UlpOf(y)
    IN  ~MagLess([hi |-> 0, lo |-> 2 * ulp], DDistance(a, b))

\* The camera is at the target of cb on every coordinate
AtTarget(pos, cb) == pos = cb.targetPos

\* ... or within two units in the last place of the larger of the start and
\* target coordinate
NearTarget(pos, cb) ==
    \A i \in 1..3 : WithinTwoUlps(pos[i], cb.targetPos[i], cb.startPos[i], cb.targetPos[i])

\* A run of animateCam before the end schedules exactly itself again under a
\* new handle; a run at the end places the camera (Placed), recentres the
\* controls, clears the handle and schedules nothing.  Only the animation the
\* handle names is ever scheduled, a reset leaves none scheduled, and no step
\* runs when none is.
AnimationRuns(Placed(_, _)) ==
    /\ \A r \in rafQueue' : r.id = animationFrameRef'
    /\ Handled("reset") => rafQueue' = {}
    /\ Handled("animateCam") => rafQueue # {}
    /\ \A cb \in rafQueue :
          Handled("animateCam")
             => IF Progress(cb, now) < Unit
                THEN /\ rafQueue' = { [cb EXCEPT !.id = nextRafId] }
                     /\ animationFrameRef' = nextRafId
                     /\ cameraLook' = Zero3
                ELSE /\ Placed(cameraPos', cb)
                     /\ cameraLook' = Zero3
                     /\ orbitTarget' = Zero3
                     /\ animationFrameRef' = 0
                     /\ rafQueue' = {}
                     /\ nextRafId' = nextRafId

\* Every scheduled animation comes to an end: the queue empties.
AnimationEnds == (rafQueue # {}) ~> (rafQueue = {})

-----------------------------------------------------------------------------
\* Order of the render passes

\* Where the last frame drew a pass
DrawnAt(name) == CHOOSE i \in 1..Len(drawn) : drawn[i] = name

\* C24: every frame draws the back-face stencil increment, then the front-face
\* stencil decrement, then the cap quad, then the clipped solid, in this order,
\* and the wireframe after the cap.
C24_PassesDrawnInOrder ==
    rendered =>
        /\ { drawn[i] : i \in 1..Len(drawn) } = PassNames
        /\ DrawnAt("backFaces") < DrawnAt("frontFaces")
        /\ DrawnAt("frontFaces") < DrawnAt("cap")
        /\ DrawnAt("cap") < DrawnAt("solid")
        /\ DrawnAt("cap") < DrawnAt("wireframe")

\* A frame has drawn the five passes with the cap moved off the centre with
\* the plane.
C24_Witness ==
    /\ rendered
    /\ lastEvent.name = "frame"
    /\ capPosition # Zero3
    /\ drawn = << "backFaces", "frontFaces", "cap", "solid", "wireframe" >>

-----------------------------------------------------------------------------
\* Pointer-follow during a rotation drag

\* C25: from the press that starts a rotation drag to the release that ends
\* it no frame changes the plane position, whatever the pointer ray hits; only
\* a press sets the drag flag and only a release clears it; and a frame with
\* no drag in progress and the view not frozen follows the pointer again.
C25_FollowSuspendedWhileDragging ==
    [][ /\ (Handled("frame") /\ isDraggingRotate) => planePos' = planePos
        /\ (~isDraggingRotate /\ isDraggingRotate') => Handled("pointerdown")
        /\ (isDraggingRotate /\ ~isDraggingRotate') => Handled("pointerup")
        /\ (Handled("frame") /\ ~isDraggingRotate /\ ~isFrozen)
              => \E hit \in RayHits \cup { NoHit } :
                    /\ lastEvent'.hit = (hit # NoHit)
                    /\ planePos' = FollowPointer(planePos, hit) ]_vars

\* The plane had followed the pointer once, a rotation drag started and turned
\* the plane, and a frame whose ray hit rendered during the drag, unfrozen:
\* the position is still the one the single follow step left.
C25_Witness ==
    /\ lastEvent.name = "frame"
    /\ lastEvent.hit
    /\ isDraggingRotate
    /\ ~isFrozen
    /\ planeEuler # Zero3
    /\ used.follow = 1
    /\ planePos # Zero3
    /\ planePos \in { FollowPointer(Zero3, hit) : hit \in RayHits }

-----------------------------------------------------------------------------
\* Range of the plane position

\* C26: the plane position always lies within clampMax of the origin, and so
\* does the plane's offset; a reset returns the position to the origin, and
\* the only other change of it is a frame's step of lerpAlpha toward a target
\* of length at most clampMax.
C26_PositionWithinClamp ==
    /\ [](VLength(planePos) <= clampMax /\ Abs(plane.constant) <= clampMax)
    /\ [][ /\ Handled("reset") => planePos' = Zero3
           /\ planePos' # planePos
                 => \/ Handled("reset")
                    \/ /\ Handled("frame")
                       /\ \E hit \in FollowHits \cup { NoHit } :
                             /\ VLength(FollowTarget(hit)) <= clampMax
                             /\ planePos' = Lerp(planePos, FollowTarget(hit), lerpAlpha, 100) ]_vars

\* After many frames of the pointer resting beyond the clamp the position has
\* come as close to the clamped target as the steps take it, on a tilted plane
\* with an offset.
C26_Witness ==
    /\ lastEvent.name = "frame"
    /\ planePos = FollowPointer(planePos, Vec(2000, 2000, 2000))
    /\ VLength(planePos) > clampMax - 20
    /\ plane.normal # Vec(0, Unit, 0)
    /\ Abs(plane.constant) > Unit

====
